---- MODULE Spec2Model ----
(***************************************************************************)
(* Model of Maintenance/maintenance.py: the OpenVAS maintenance pipeline.  *)
(* One execution of main() is the record `run`: its position, arguments,   *)
(* the MaintenanceReport it fills, the locals of the step in progress and  *)
(* a log of what it did to the outside world.  External tools (systemctl,  *)
(* greenbone-*-sync, gvmd, the filesystem, df, psql, openssl, SMTP) answer *)
(* nondeterministically; every answer the code distinguishes is a value of *)
(* the outcome sets below.                                                 *)
(***************************************************************************)
EXTENDS Integers, Sequences, FiniteSets, TLC

VARIABLES run, gemelo, eventos

vars == <<run, gemelo, eventos>>

(* ------------------------------ bounds -------------------------------- *)

\* External conditions that differ from a quiet system (a service down, a
\* tool failing, a file or record present) met by one run.
MaxEventos == 2

\* The same, for the paired real run and dry-run of the cleanup steps.
MaxEventosGemelos == 3

\* add_cleanup calls in the report-API specification.
MaxLlamadas == 2

(* ------------------------- small helpers ------------------------------ *)

EmptyMap == [x \in {} |-> x]

Put(map, k, v) == (k :> v) @@ map

Has(map, k) == k \in DOMAIN map

Range(s) == {s[k] : k \in 1..Len(s)}

(* --------------------------- MaintenanceReport ------------------------ *)

\* MaintenanceReport.__init__: the report of one run.
MaintenanceReport ==
    [timestamp    |-> "t0",
     services     |-> EmptyMap,
     feeds        |-> EmptyMap,
     cleanup      |-> EmptyMap,
     disk_space   |-> EmptyMap,
     database     |-> EmptyMap,
     certificates |-> EmptyMap,
     errors       |-> <<>>,
     warnings     |-> <<>>,
     summary      |-> EmptyMap]

add_service_status(rep, service, status, message) ==
    [rep EXCEPT !.services = Put(@, service, [status |-> status, message |-> message])]

add_feed_update(rep, feed_type, status, message) ==
    [rep EXCEPT !.feeds = Put(@, feed_type, [status |-> status, message |-> message])]

\* add_cleanup with `=` where the code has `+=`.
add_cleanup_overwrite(rep, item_type, count, size_freed) ==
    [rep EXCEPT !.cleanup = Put(@, item_type, [count |-> count, size_freed_mb |-> size_freed])]

\* Sizes are integers in a fixed unit; the code adds floats.
add_cleanup(rep, item_type, count, size_freed) ==
    LET c0 == IF Has(rep.cleanup, item_type)
              THEN rep.cleanup
              ELSE Put(rep.cleanup, item_type, [count |-> 0, size_freed_mb |-> 0])
        e  == c0[item_type]
    IN [rep EXCEPT !.cleanup =
            Put(c0, item_type, [count         |-> e.count + count,
                                size_freed_mb |-> e.size_freed_mb + size_freed])]

\* add_error with an assignment where the code appends.
add_error_reemplaza(rep, error) == [rep EXCEPT !.errors = <<error>>]

add_error(rep, error) == [rep EXCEPT !.errors = Append(@, error)]

add_warning(rep, warning) == [rep EXCEPT !.warnings = Append(@, warning)]

\* get_summary_text: the sections the text rendering is built from.
get_summary_text(rep) ==
    [timestamp |-> rep.timestamp,
     services  |-> rep.services,
     feeds     |-> [f \in DOMAIN rep.feeds |-> rep.feeds[f].status],
     cleanup   |-> rep.cleanup,
     errors    |-> rep.errors,
     warnings  |-> rep.warnings]

(* ------------------------------ main ---------------------------------- *)

\* The seven calls of main(), in the order main() makes them.
main_steps ==
    <<"verificar_servicios", "actualizar_feeds", "limpiar_reportes_antiguos",
      "limpiar_archivos_temporales", "verificar_espacio_disco",
      "optimizar_base_datos", "verificar_certificados">>

NoCall == [paso |-> "-", op |-> "-", fallo |-> FALSE]

\* The state of main() before leer_configuracion. `previo` is a ghost: the
\* report as it was when main() called the step now running.
Inicio(dry) ==
    [pc             |-> "leer_configuracion",
     dry_run        |-> dry,
     restart_failed |-> FALSE,
     report         |-> MaintenanceReport,
     previo         |-> MaintenanceReport,
     i              |-> 1,
     fallidos       |-> <<>>,
     count          |-> 0,
     size           |-> 0,
     aux            |-> EmptyMap,
     cutoff         |-> [t |-> 0, aware |-> FALSE],
     calls          |-> <<>>,
     pasos          |-> <<>>,
     chk            |-> EmptyMap,
     ext            |-> NoCall,
     hist           |-> <<>>,
     exit_code      |-> -1,
     saved_json     |-> EmptyMap,
     saved_txt      |-> EmptyMap,
     email          |-> "none"]

\* main() calls a step: its locals start fresh.
Llamar(m, paso) ==
    [m EXCEPT !.pc = paso, !.pasos = Append(@, paso), !.i = 1,
              !.fallidos = <<>>, !.count = 0, !.size = 0, !.aux = EmptyMap,
              !.cutoff = Inicio(m.dry_run).cutoff, !.previo = m.report]

\* A step returns to main(), which calls the next one or goes on to the summary.
Retornar(m) ==
    IF Len(m.pasos) < Len(main_steps)
    THEN Llamar(m, main_steps[Len(m.pasos) + 1])
    ELSE [m EXCEPT !.pc = "guardar", !.i = 1, !.count = 0, !.size = 0, !.aux = EmptyMap,
                   !.previo = m.report]

\* An exception nobody catches: the interpreter prints it and exits with 1.
Abortar(m) == [m EXCEPT !.pc = "crashed", !.exit_code = 1, !.ext = NoCall]

\* Ghost: the external call the last action made, and whether it failed.
Ext(m, op, fallo) ==
    [m EXCEPT !.ext = [paso |-> m.pasos[Len(m.pasos)], op |-> op, fallo |-> fallo]]

\* Ghost: a mutating external call issued by the run.
Mutar(m, op, arg, out) == [m EXCEPT !.calls = Append(@, <<op, arg, out>>)]

Costo(nominal) == IF nominal THEN 0 ELSE 1

(* ------------------------ leer_configuracion -------------------------- *)

ConfigOutcomes == {"ok", "FileNotFoundError", "JSONDecodeError", "empty", "maintenance_not_dict"}

\* main() up to the first step: the configuration is read, the report created,
\* restart_failed_services looked up.
LeerConfiguracion(cfg, rf) ==
    /\ run.pc = "leer_configuracion"
    /\ run' = CASE cfg \in {"FileNotFoundError", "JSONDecodeError", "empty"} ->
                     [run EXCEPT !.pc = "done", !.exit_code = 1]
                [] cfg = "maintenance_not_dict" -> Abortar(run)
                [] OTHER ->
                     Llamar([run EXCEPT !.restart_failed = rf], main_steps[1])
    /\ UNCHANGED eventos

(* ------------------------- verificar_servicios ------------------------ *)

servicios_criticos == <<"gvmd", "ospd-openvas", "gsad", "notus-scanner">>

servicios_soporte == <<"postgresql", "redis-server@openvas", "mosquitto">>

todos_servicios == servicios_criticos \o servicios_soporte

CheckOutcomes == {"active", "inactive", "TimeoutExpired", "Exception"}

\* verificar_servicio: [report, ret] for one answer of `systemctl is-active`.
verificar_servicio(rep, service_name, out) ==
    CASE out = "active" ->
           [report |-> add_service_status(rep, service_name, "ok", "Servicio activo"),
            ret    |-> TRUE]
      [] out = "inactive" ->
           [report |-> add_error(
                         add_service_status(rep, service_name, "failed", "Servicio no activo"),
                         <<"Servicio no esta activo", service_name>>),
            ret    |-> FALSE]
      [] out = "TimeoutExpired" ->
           [report |-> add_warning(
                         add_service_status(rep, service_name, "timeout",
                                            "Timeout al verificar servicio"),
                         <<"Timeout al verificar servicio", service_name>>),
            ret    |-> FALSE]
      [] OTHER ->
           [report |-> add_error(
                         add_service_status(rep, service_name, "error", "str(e)"),
                         <<"Error al verificar servicio", service_name>>),
            ret    |-> FALSE]

\* TimeoutExpired (timeout=30) is caught by the same `except Exception`.
RestartOutcomes == {"ok", "nonzero", "Exception"}

\* reiniciar_servicio on the machine: dry-run returns at once; otherwise
\* `sudo systemctl restart` is issued and its answer recorded.
reiniciar_servicio(m, service_name, out) ==
    IF m.dry_run THEN m
    ELSE LET m1 == Mutar(m, "restart", service_name, out)
         IN CASE out = "ok" ->
                   [m1 EXCEPT !.report = add_service_status(@, service_name, "restarted",
                                             "Servicio reiniciado exitosamente")]
              [] out = "nonzero" ->
                   [m1 EXCEPT !.report = add_error(@, <<"Error al reiniciar", service_name>>)]
              [] OTHER ->
                   [m1 EXCEPT !.report = add_error(@, <<"Excepcion al reiniciar", service_name>>)]

\* anotar_fallido without the `if not`.
anotar_siempre(fallidos, servicio, ret) == Append(fallidos, servicio)

\* `if not verificar_servicio(...): servicios_fallidos.append(servicio)`
anotar_fallido(fallidos, servicio, ret) ==
    IF ret THEN fallidos ELSE Append(fallidos, servicio)

\* `if restart_failed and servicios_fallidos and not dry_run`
debe_reiniciar(m) == m.restart_failed /\ m.fallidos # <<>> /\ ~m.dry_run

\* One iteration of the check loop of verificar_servicios; after the last
\* service the restart phase starts or the step returns.
verificar_servicios_iter(m, out) ==
    LET s  == todos_servicios[m.i]
        r  == verificar_servicio(m.report, s, out)
        m1 == [m EXCEPT !.report = r.report,
                        !.fallidos = anotar_fallido(@, s, r.ret),
                        !.chk = Put(@, s, out),
                        !.i = @ + 1]
        m2 == Ext(m1, "is-active", out # "active")
    IN IF m.i < Len(todos_servicios) THEN m2
       ELSE IF debe_reiniciar(m2) THEN [m2 EXCEPT !.pc = "reiniciar_servicio", !.i = 1]
       ELSE Retornar([m2 EXCEPT !.fallidos = <<>>])

\* One iteration of the restart loop of verificar_servicios.
reiniciar_iter(m, out) ==
    LET s  == m.fallidos[m.i]
        m1 == Ext(reiniciar_servicio(m, s, out), "restart", out # "ok")
    IN IF m.i < Len(m.fallidos) THEN [m1 EXCEPT !.i = @ + 1]
       ELSE Retornar([m1 EXCEPT !.fallidos = <<>>])

VerificarServicio(out) ==
    /\ run.pc = "verificar_servicios"
    /\ Costo(out = "active") <= eventos
    /\ run' = verificar_servicios_iter(run, out)
    /\ eventos' = eventos - (Costo(out = "active"))

ReiniciarServicio(out) ==
    /\ run.pc = "reiniciar_servicio"
    /\ Costo(out = "ok") <= eventos
    /\ run' = reiniciar_iter(run, out)
    /\ eventos' = eventos - (Costo(out = "ok"))

(* --------------------------- actualizar_feeds ------------------------- *)

feeds == <<"NVT", "GVMD_DATA", "SCAP", "CERT">>

FeedOutcomes == {"ok", "nonzero", "TimeoutExpired", "Exception"}

\* The body of the feed loop for one feed.
actualizar_feed(m, feed_type, out) ==
    IF m.dry_run
    THEN [m EXCEPT !.report = add_feed_update(@, feed_type, "simulated", "Simulado en dry-run"),
                   !.ext = NoCall]
    ELSE LET m1 == Ext(Mutar(m, "feed-sync", feed_type, out), "feed-sync", out # "ok")
         IN CASE out = "ok" ->
                   [m1 EXCEPT !.report = add_feed_update(@, feed_type, "ok",
                                                         "Actualizacion completada")]
              [] out = "nonzero" ->
                   [m1 EXCEPT !.report = add_warning(
                                add_feed_update(@, feed_type, "error", "stderr[:200]"),
                                <<"Error al actualizar feed", feed_type>>)]
              [] out = "TimeoutExpired" ->
                   [m1 EXCEPT !.report = add_warning(
                                add_feed_update(@, feed_type, "timeout",
                                                "Timeout en actualizacion"),
                                <<"Timeout al actualizar feed", feed_type>>)]
              [] OTHER ->
                   [m1 EXCEPT !.report = add_error(
                                add_feed_update(@, feed_type, "error", "str(e)"),
                                <<"Excepcion al actualizar", feed_type>>)]

\* actualizar_feeds_iter with the try around the loop: a fault ends the step.
actualizar_feeds_aborta(m, out) ==
    LET m1 == actualizar_feed(m, feeds[m.i], out)
    IN IF m.i < Len(feeds) /\ out \in {"ok", "nonzero"}
       THEN [m1 EXCEPT !.i = @ + 1] ELSE Retornar(m1)

\* One iteration of `for feed_type, command in feeds`.
actualizar_feeds_iter(m, out) ==
    LET m1 == actualizar_feed(m, feeds[m.i], out)
    IN IF m.i < Len(feeds) THEN [m1 EXCEPT !.i = @ + 1] ELSE Retornar(m1)

ActualizarFeed(out) ==
    /\ run.pc = "actualizar_feeds"
    /\ Costo(out = "ok") <= eventos
    /\ run' = actualizar_feeds_iter(run, out)
    /\ eventos' = eventos - (Costo(out = "ok"))

(* ----------------------- limpiar_reportes_antiguos -------------------- *)

\* datetime.datetime.now(): naive local time, in days.
Now == [t |-> 200, aware |-> FALSE]

\* A configuration value: absent (the default applies), a number, or a string.
Ausente == [tipo |-> "absent", v |-> 0]

Numero(n) == [tipo |-> "int", v |-> n]

Cadena == [tipo |-> "str", v |-> 0]

\* config.get('maintenance', {}).get(key, default)
config_get(valor, default) == IF valor.tipo = "absent" THEN Numero(default) ELSE valor

DefaultReportRetention == 90

DefaultLogRetention == 30

RetentionValues == {Ausente, Numero(30), Cadena}

\* datetime.datetime.now() - datetime.timedelta(days=d): TypeError unless d is a number.
cutoff_date(d) ==
    IF d.tipo = "int"
    THEN [exc |-> "none", fecha |-> [t |-> Now.t - d.v, aware |-> FALSE]]
    ELSE [exc |-> "TypeError", fecha |-> Now]

\* The <timestamp> of a report element: no element, an element without text,
\* or text: a date (or garbage) followed by a zone designator.
SinElemento == [tag |-> "no_elem", dia |-> 0, zona |-> ""]

SinTexto == [tag |-> "None", dia |-> 0, zona |-> ""]

Basura == [tag |-> "garbage", dia |-> 0, zona |-> ""]

Iso(dia, zona) == [tag |-> "iso", dia |-> dia, zona |-> zona]

Dias == {100, 110, 198}

Timestamps ==
    {SinElemento, SinTexto, Basura} \cup {Iso(d, z) : d \in Dias, z \in {"", "Z"}}

\* timestamp_str.replace('Z', '+00:00')
replace_Z(ts) ==
    IF ts.tag = "None" THEN [exc |-> "AttributeError", str |-> ts]
    ELSE [exc |-> "none",
          str |-> IF ts.zona = "Z" THEN [ts EXCEPT !.zona = "+00:00"] ELSE ts]

\* datetime.datetime.fromisoformat: a zone designator makes the result aware.
fromisoformat(str) ==
    IF str.tag = "iso" /\ str.zona \in {"", "+00:00"}
    THEN [exc |-> "none", fecha |-> [t |-> str.dia, aware |-> str.zona # ""]]
    ELSE [exc |-> "ValueError", fecha |-> Now]

\* a < b on datetimes: TypeError between a naive and an aware one.
datetime_lt(a, b) ==
    IF a.aware # b.aware THEN [exc |-> "TypeError", lt |-> FALSE]
    ELSE [exc |-> "none", lt |-> a.t < b.t]

\* Lines 268-279: is the record selected, or which exception leaves the inner try.
\* ValueError and AttributeError are caught there (continue); TypeError is not.
seleccionar(ts, cutoff) ==
    IF ts.tag = "no_elem" THEN [sel |-> FALSE, exc |-> "none"]
    ELSE LET r == replace_Z(ts)
         IN IF r.exc # "none" THEN [sel |-> FALSE, exc |-> "none"]
            ELSE LET p == fromisoformat(r.str)
                 IN IF p.exc # "none" THEN [sel |-> FALSE, exc |-> "none"]
                    ELSE LET c == datetime_lt(p.fecha, cutoff)
                         IN [sel |-> c.lt, exc |-> c.exc]

\* `except Exception as e: report.add_error(f"Error al limpiar reportes: {e}")`
reportes_except(m, e) ==
    Retornar([m EXCEPT !.report = add_error(@, <<"Error al limpiar reportes", e>>)])

\* Ghost: the call of report.add_cleanup, remembered in hist.
RecordCleanup(m, item_type, count, size_freed) ==
    [m EXCEPT !.report = add_cleanup(@, item_type, count, size_freed),
              !.hist = Append(@, <<item_type, count, size_freed>>)]

GmpOutcomes == {"ok", "Exception"}

\* Lines 246-261: the cutoff, then connect, authenticate and get_reports.
limpiar_reportes_inicio(m, retention, conn) ==
    LET c == cutoff_date(config_get(retention, DefaultReportRetention))
    IN IF c.exc # "none" THEN Abortar(m)
       ELSE IF conn # "ok" THEN reportes_except(Ext(m, "get_reports", TRUE), "gmp")
       ELSE [Ext(m, "get_reports", FALSE) EXCEPT
                !.cutoff = c.fecha, !.pc = "reports_loop", !.count = 0]

DeleteOutcomes == {"ok", "Exception"}

\* Does the loop body call gmp.delete_report for this record?
borra(m, ts) ==
    LET s == seleccionar(ts, m.cutoff) IN s.exc = "none" /\ s.sel /\ ~m.dry_run

\* Lines 264-279: the loop body for one report element.
limpiar_reportes_iter(m, ts, del) ==
    LET s == seleccionar(ts, m.cutoff)
    IN IF s.exc # "none" THEN reportes_except([m EXCEPT !.ext = NoCall], s.exc)
       ELSE IF ~s.sel THEN [m EXCEPT !.ext = NoCall]
       ELSE IF m.dry_run THEN [m EXCEPT !.count = @ + 1, !.ext = NoCall]
       ELSE LET m1 == Ext(Mutar(m, "delete_report", "report", del), "delete_report", del # "ok")
            IN IF del # "ok" THEN reportes_except(m1, "delete_report")
               ELSE [m1 EXCEPT !.count = @ + 1]

\* Lines 281-282: the loop is over.
limpiar_reportes_fin(m) ==
    Retornar(RecordCleanup([m EXCEPT !.ext = NoCall], "reports", m.count, 0))

IniciarLimpiezaReportes(retention, conn) ==
    /\ run.pc = "limpiar_reportes_antiguos"
    /\ Costo(conn = "ok") <= eventos
    /\ run' = limpiar_reportes_inicio(run, retention, conn)
    /\ eventos' = eventos - (Costo(conn = "ok"))

EvaluarReporte(ts, del) ==
    /\ run.pc = "reports_loop"
    /\ 1 + Costo(del = "ok") <= eventos
    /\ run' = limpiar_reportes_iter(run, ts, del)
    /\ eventos' = eventos - (1 + Costo(del = "ok"))

FinReportes ==
    /\ run.pc = "reports_loop"
    /\ run' = limpiar_reportes_fin(run)
    /\ UNCHANGED eventos

(* ---------------------- limpiar_archivos_temporales ------------------- *)

\* Half a megabyte, in bytes: sizes in the report are counted in this unit.
HalfMB == (1024 * 1024) \div 2

\* size / (1024 * 1024), in halves of a megabyte.
size_mb(bytes) == bytes \div HalfMB

Tamanos == {HalfMB, 3 * HalfMB}

CsvOutcomes == {"ok", "getsize", "remove"}

archivo_warning(m, texto, archivo) ==
    [m EXCEPT !.report = add_warning(@, <<texto, archivo>>)]

\* contar placed inside `if not dry_run`.
contar_solo_real(m, size) ==
    IF m.dry_run THEN m ELSE [m EXCEPT !.count = @ + 1, !.size = @ + size]

\* `count += 1; size += size`: outside `if not dry_run`, so a dry-run counts too.
contar(m, size) == [m EXCEPT !.count = @ + 1, !.size = @ + size]

\* eliminar_csv without `if not dry_run` before os.remove.
eliminar_csv_sin_guarda(m, size, fallo) ==
    IF fallo = "getsize"
    THEN archivo_warning(Ext(m, "getsize", TRUE), "Error al eliminar", "csv")
    ELSE LET m1 == Ext(Mutar(m, "remove", "csv", fallo), "remove", fallo = "remove")
         IN IF fallo = "remove" THEN archivo_warning(m1, "Error al eliminar", "csv")
            ELSE contar(m1, size)

\* Lines 300-308: one export file.  `fallo` names the call that raises.
eliminar_csv(m, size, fallo) ==
    IF fallo = "getsize"
    THEN archivo_warning(Ext(m, "getsize", TRUE), "Error al eliminar", "csv")
    ELSE IF m.dry_run THEN contar([m EXCEPT !.ext = NoCall], size)
    ELSE LET m1 == Ext(Mutar(m, "remove", "csv", fallo), "remove", fallo = "remove")
         IN IF fallo = "remove" THEN archivo_warning(m1, "Error al eliminar", "csv")
            ELSE contar(m1, size)

\* Lines 310-322: the export count is recorded, the log cutoff computed.
csv_fin(m, log_retention) ==
    LET m1 == RecordCleanup([m EXCEPT !.ext = NoCall], "csv_files", m.count, size_mb(m.size))
        c  == cutoff_date(config_get(log_retention, DefaultLogRetention))
    IN IF c.exc # "none" THEN Abortar(m1)
       ELSE [m1 EXCEPT !.pc = "logs", !.cutoff = c.fecha, !.count = 0, !.size = 0]

LogOutcomes == {"ok", "getmtime", "getsize", "remove"}

\* Lines 326-336: one log file, whose modification time is `mtime` (days).
eliminar_log(m, mtime, size, fallo) ==
    IF fallo = "getmtime"
    THEN archivo_warning(Ext(m, "getmtime", TRUE), "Error al eliminar log", "log")
    ELSE LET c == datetime_lt([t |-> mtime, aware |-> FALSE], m.cutoff)
         IN IF ~c.lt THEN [m EXCEPT !.ext = NoCall]
            ELSE IF fallo = "getsize"
            THEN archivo_warning(Ext(m, "getsize", TRUE), "Error al eliminar log", "log")
            ELSE IF m.dry_run THEN contar([m EXCEPT !.ext = NoCall], size)
            ELSE LET m1 == Ext(Mutar(m, "remove", "log", fallo), "remove", fallo = "remove")
                 IN IF fallo = "remove"
                    THEN archivo_warning(m1, "Error al eliminar log", "log")
                    ELSE contar(m1, size)

\* Lines 338-347.
logs_fin(m) ==
    [RecordCleanup([m EXCEPT !.ext = NoCall], "log_files", m.count, size_mb(m.size))
        EXCEPT !.pc = "temp", !.i = 1, !.count = 0, !.size = 0]

temp_files == <<"tasksend.txt", "taskslog.txt", "logbalbix.txt">>

TempOutcomes == {"ok", "remove"}

\* Lines 348-357: one scratch file; after the last one the count is recorded.
eliminar_temp(m, existe, fallo) ==
    LET f  == temp_files[m.i]
        m1 == IF ~existe THEN [m EXCEPT !.ext = NoCall]
              ELSE IF m.dry_run THEN contar([m EXCEPT !.ext = NoCall], 0)
              ELSE LET m2 == Ext(Mutar(m, "remove", f, fallo), "remove", fallo = "remove")
                   IN IF fallo = "remove" THEN archivo_warning(m2, "Error al eliminar", f)
                      ELSE contar(m2, 0)
    IN IF m.i < Len(temp_files) THEN [m1 EXCEPT !.i = @ + 1]
       ELSE Retornar(RecordCleanup(m1, "temp_files", m1.count, 0))

EliminarCsv(size, fallo) ==
    /\ run.pc = "limpiar_archivos_temporales"
    /\ 1 + Costo(fallo = "ok") <= eventos
    /\ run' = eliminar_csv(run, size, fallo)
    /\ eventos' = eventos - (1 + Costo(fallo = "ok"))

FinCsv(log_retention) ==
    /\ run.pc = "limpiar_archivos_temporales"
    /\ run' = csv_fin(run, log_retention)
    /\ UNCHANGED eventos

EliminarLog(mtime, size, fallo) ==
    /\ run.pc = "logs"
    /\ 1 + Costo(fallo = "ok") <= eventos
    /\ run' = eliminar_log(run, mtime, size, fallo)
    /\ eventos' = eventos - (1 + Costo(fallo = "ok"))

FinLogs ==
    /\ run.pc = "logs"
    /\ run' = logs_fin(run)
    /\ UNCHANGED eventos

EliminarTemp(existe, fallo) ==
    /\ run.pc = "temp"
    /\ Costo(~existe) + Costo(fallo = "ok") <= eventos
    /\ run' = eliminar_temp(run, existe, fallo)
    /\ eventos' = eventos - (Costo(~existe) + Costo(fallo = "ok"))

(* ------------------------ verificar_espacio_disco --------------------- *)

DefaultMinDiskSpace == 10

\* Megabytes in a gigabyte: available_gb and min_required_gb are kept in
\* 1/1024 of a gigabyte, so that `float(...) / 1024` stays an integer.
MBperGB == 1024

MinDiskValues == {Ausente, Cadena}

\* The "Avail" column printed by `df -h /`: digits (or not) and a unit letter.
Avail(numero, n, unidad) == [numero |-> numero, n |-> n, unidad |-> unidad]

AvailValues ==
    {Avail(TRUE, 25, "G"), Avail(TRUE, 5, "G"), Avail(TRUE, 512, "M"),
     Avail(TRUE, 2, "T"), Avail(FALSE, 0, "G")}

\* What `df` did: raised, printed fewer than two lines (as it does when it
\* exits non-zero), printed a second line of fewer than four fields, or
\* printed the table.
Df(kind, avail) == [kind |-> kind, avail |-> avail]

DfNominal == Df("table", Avail(TRUE, 25, "G"))

DfOutcomes ==
    {Df("Exception", DfNominal.avail), Df("no_lines", DfNominal.avail),
     Df("few_fields", DfNominal.avail)}
    \cup {Df("table", a) : a \in AvailValues}

\* Lines 383-388: the figure in gigabytes (here in 1/1024 GB), or ValueError.
available_gb(a) ==
    IF a.unidad = "G"
    THEN IF a.numero THEN [exc |-> "none", gb |-> a.n * MBperGB]
                     ELSE [exc |-> "ValueError", gb |-> 0]
    ELSE IF a.unidad = "M"
    THEN IF a.numero THEN [exc |-> "none", gb |-> a.n]
                     ELSE [exc |-> "ValueError", gb |-> 0]
    ELSE [exc |-> "none", gb |-> 0]

disco_except(m) ==
    [m EXCEPT !.report = add_error(@, <<"Error al verificar espacio en disco", "df">>)]

\* verificar_espacio_disco, whole.
verificar_espacio_disco(m, min_cfg, df) ==
    LET min_space_gb == config_get(min_cfg, DefaultMinDiskSpace)
        m0 == Ext(m, "df", df.kind \in {"Exception", "no_lines"})
    IN Retornar(
         IF df.kind = "Exception" THEN disco_except(m0)
         ELSE IF df.kind \in {"no_lines", "few_fields"} THEN m0
         ELSE LET a == available_gb(df.avail)
              IN IF a.exc # "none" THEN disco_except(m0)
                 ELSE IF min_space_gb.tipo # "int" THEN disco_except(m0)
                 ELSE LET min == min_space_gb.v * MBperGB
                          m1  == [m0 EXCEPT !.report.disk_space =
                                    [available_gb    |-> a.gb,
                                     min_required_gb |-> min,
                                     status          |-> IF a.gb >= min THEN "ok"
                                                         ELSE "warning"]]
                      IN IF a.gb < min
                         THEN [m1 EXCEPT !.report =
                                 add_warning(@, <<"Espacio en disco bajo", "df">>)]
                         ELSE m1)

VerificarEspacioDisco(min_cfg, df) ==
    /\ run.pc = "verificar_espacio_disco"
    /\ Costo(df = DfNominal) + Costo(min_cfg = Ausente) <= eventos
    /\ run' = verificar_espacio_disco(run, min_cfg, df)
    /\ eventos' = eventos - (Costo(df = DfNominal) + Costo(min_cfg = Ausente))

(* ------------------------- optimizar_base_datos ----------------------- *)

\* The five psql statements, in the order of the code.
db_statements ==
    <<"pg_database_size", "VACUUM FULL", "ANALYZE", "REINDEX DATABASE gvmd",
      "pg_database_size">>

\* The size queries pass no timeout, so they cannot raise TimeoutExpired.
PsqlOutcomes(k) ==
    IF k \in {1, 5} THEN {"ok", "nonzero", "Exception"}
    ELSE {"ok", "nonzero", "TimeoutExpired", "Exception"}

bd_except(m, out) ==
    Retornar([m EXCEPT !.report = add_error(@,
                IF out = "TimeoutExpired"
                THEN <<"Timeout al optimizar base de datos", "psql">>
                ELSE <<"Error al optimizar base de datos", "psql">>)])

\* `stdout.strip() if returncode == 0 else "N/A"`
size_pretty(out) == IF out = "ok" THEN "size" ELSE "N/A"

\* The dry-run branch (lines 408-411).
optimizar_simulado(m) ==
    Retornar([m EXCEPT !.report.database = [status |-> "simulated"], !.ext = NoCall])

\* optimizar_iter with a non-zero completion handled like a fault: the step
\* adds an error and returns.
optimizar_iter_estricto(m, out) ==
    LET st == db_statements[m.i]
        m0 == IF m.i \in {1, 5} THEN m ELSE Mutar(m, "psql", st, out)
        m1 == Ext(m0, st, out # "ok")
    IN IF out \in {"TimeoutExpired", "Exception"} THEN bd_except(m1, out)
       ELSE IF m.i = 1 THEN [m1 EXCEPT !.aux = Put(@, "size_before", size_pretty(out)),
                                       !.i = @ + 1]
       ELSE IF m.i = 5
       THEN Retornar([m1 EXCEPT !.report.database =
                        [status      |-> "ok",
                         size_before |-> m.aux["size_before"],
                         size_after  |-> size_pretty(out)]])
       ELSE IF out = "nonzero" THEN bd_except(m1, "Exception")
       ELSE [m1 EXCEPT !.i = @ + 1]

\* One statement of the real branch (lines 413-482); m.i is its position.
optimizar_iter(m, out) ==
    LET st == db_statements[m.i]
        m0 == IF m.i \in {1, 5} THEN m ELSE Mutar(m, "psql", st, out)
        m1 == Ext(m0, st, out # "ok")
    IN IF out \in {"TimeoutExpired", "Exception"} THEN bd_except(m1, out)
       ELSE IF m.i = 1 THEN [m1 EXCEPT !.aux = Put(@, "size_before", size_pretty(out)),
                                       !.i = @ + 1]
       ELSE IF m.i = 5
       THEN Retornar([m1 EXCEPT !.report.database =
                        [status      |-> "ok",
                         size_before |-> m.aux["size_before"],
                         size_after  |-> size_pretty(out)]])
       ELSE IF out = "nonzero"
       THEN [m1 EXCEPT !.report = add_warning(@, <<"completado con advertencias", st>>),
                       !.i = @ + 1]
       ELSE [m1 EXCEPT !.i = @ + 1]

optimizar_base_datos(m, out) ==
    IF m.dry_run THEN optimizar_simulado(m) ELSE optimizar_iter(m, out)

OptimizarBaseDatos(out) ==
    /\ run.pc = "optimizar_base_datos"
    /\ Costo(out = "ok") <= eventos
    /\ run' = optimizar_base_datos(run, out)
    /\ eventos' = eventos - (Costo(out = "ok"))

(* ------------------------- verificar_certificados --------------------- *)

cert_paths == <<"cacert.pem", "servercert.pem">>

OpensslOutcomes == {"ok", "nonzero", "Exception"}

\* The loop body for one certificate: its entry of cert_status.
cert_entry(existe, out) ==
    IF ~existe THEN [status |-> "not_found"]
    ELSE IF out = "ok" THEN [status |-> "ok", expiry |-> "notAfter"]
    ELSE IF out = "nonzero" THEN [status |-> "error", message |-> "stderr"]
    ELSE [status |-> "error", message |-> "str(e)"]

\* One iteration; after the last, `report.report['certificates'] = cert_status`.
verificar_certificados_iter(m, existe, out) ==
    LET m0 == IF existe THEN Ext(m, "openssl", out # "ok") ELSE [m EXCEPT !.ext = NoCall]
        m1 == [m0 EXCEPT !.aux = Put(@, cert_paths[m.i], cert_entry(existe, out))]
    IN IF m.i < Len(cert_paths) THEN [m1 EXCEPT !.i = @ + 1]
       ELSE Retornar([m1 EXCEPT !.report.certificates = m1.aux])

VerificarCertificado(existe, out) ==
    /\ run.pc = "verificar_certificados"
    /\ Costo(existe /\ out = "ok") <= eventos
    /\ run' = verificar_certificados_iter(run, existe, out)
    /\ eventos' = eventos - (Costo(existe /\ out = "ok"))

(* ------------------- summary, save, email, exit code ------------------- *)

\* What writing the two files did: both written, or OSError from makedirs /
\* open / json.dump of the JSON file, or OSError from the text file.
GuardarOutcomes == {"ok", "OSError_json", "OSError_txt"}

\* Lines 617-635: the summary is rendered, the report saved as JSON (629) and
\* then as text (634-635); nothing around them catches an exception.
guardar(m, out) ==
    LET m1 == [m EXCEPT !.saved_json = m.report]
        m2 == [m1 EXCEPT !.saved_txt = get_summary_text(m.report)]
    IN CASE out = "OSError_json" -> Abortar(m)
         [] out = "OSError_txt"  -> Abortar(m1)
         [] OTHER                -> [m2 EXCEPT !.pc = "email", !.ext = NoCall]

SmtpOutcomes == {"ok", "Exception"}

\* debe_enviar without the policy: a send only when there are errors.
debe_enviar_solo_errores(email_on_errors, rep) == rep.errors # <<>>

\* `if not email_on_errors and not report.report['errors']: return`
debe_enviar(email_on_errors, rep) == ~(~email_on_errors /\ rep.errors = <<>>)

\* enviar_email_reporte: nothing, a delivery, or a failure that is only printed.
enviar_email_reporte(m, email_on_errors, smtp) ==
    IF ~debe_enviar(email_on_errors, m.report) THEN m
    ELSE [m EXCEPT !.email = IF smtp = "ok" THEN "sent" ELSE "failed"]

\* `return 1 if report.report['errors'] else 0`
codigo_salida(rep) == IF rep.errors # <<>> THEN 1 ELSE 0

\* Lines 637-642.
main_fin(m, no_email, email_on_errors, smtp) ==
    LET m1 == IF no_email THEN m ELSE enviar_email_reporte(m, email_on_errors, smtp)
    IN [m1 EXCEPT !.exit_code = codigo_salida(m1.report), !.pc = "done", !.ext = NoCall]

Guardar(out) ==
    /\ run.pc = "guardar"
    /\ Costo(out = "ok") <= eventos
    /\ run' = guardar(run, out)
    /\ eventos' = eventos - (Costo(out = "ok"))

Terminar(no_email, email_on_errors, smtp) ==
    /\ run.pc = "email"
    /\ run' = main_fin(run, no_email, email_on_errors, smtp)
    /\ UNCHANGED eventos

(* ------------------------------ spec ---------------------------------- *)

\* eventos: how many more external conditions the run may meet.
Init ==
    /\ run \in {Inicio(d) : d \in BOOLEAN}
    /\ gemelo = Inicio(TRUE)
    /\ eventos = MaxEventos

Next ==
    \/ \E cfg \in ConfigOutcomes, rf \in BOOLEAN :
          LeerConfiguracion(cfg, rf) /\ UNCHANGED gemelo
    \/ \E out \in CheckOutcomes : VerificarServicio(out) /\ UNCHANGED gemelo
    \/ \E out \in RestartOutcomes : ReiniciarServicio(out) /\ UNCHANGED gemelo
    \/ \E out \in (IF run.dry_run THEN {"ok"} ELSE FeedOutcomes) :
          ActualizarFeed(out) /\ UNCHANGED gemelo
    \/ \E ret \in RetentionValues, conn \in GmpOutcomes :
          IniciarLimpiezaReportes(ret, conn) /\ UNCHANGED gemelo
    \/ \E ts \in Timestamps :
          \E del \in (IF borra(run, ts) THEN DeleteOutcomes ELSE {"ok"}) :
             EvaluarReporte(ts, del) /\ UNCHANGED gemelo
    \/ FinReportes /\ UNCHANGED gemelo
    \/ \E size \in Tamanos :
          \E fallo \in (IF run.dry_run THEN {"ok", "getsize"} ELSE CsvOutcomes) :
             EliminarCsv(size, fallo) /\ UNCHANGED gemelo
    \/ \E lr \in RetentionValues : FinCsv(lr) /\ UNCHANGED gemelo
    \/ \E mtime \in Dias, size \in Tamanos :
          \E fallo \in (IF run.dry_run THEN LogOutcomes \ {"remove"} ELSE LogOutcomes) :
             EliminarLog(mtime, size, fallo) /\ UNCHANGED gemelo
    \/ FinLogs /\ UNCHANGED gemelo
    \/ \E existe \in BOOLEAN :
          \E fallo \in (IF existe /\ ~run.dry_run THEN TempOutcomes ELSE {"ok"}) :
             EliminarTemp(existe, fallo) /\ UNCHANGED gemelo
    \/ \E min_cfg \in MinDiskValues, df \in DfOutcomes :
          VerificarEspacioDisco(min_cfg, df) /\ UNCHANGED gemelo
    \/ \E out \in (IF run.dry_run THEN {"ok"} ELSE PsqlOutcomes(run.i)) :
          OptimizarBaseDatos(out) /\ UNCHANGED gemelo
    \/ \E existe \in BOOLEAN :
          \E out \in (IF existe THEN OpensslOutcomes ELSE {"ok"}) :
             VerificarCertificado(existe, out) /\ UNCHANGED gemelo
    \/ \E out \in GuardarOutcomes : Guardar(out) /\ UNCHANGED gemelo
    \/ \E no_email \in BOOLEAN, eoe \in BOOLEAN, smtp \in SmtpOutcomes :
          Terminar(no_email, eoe, smtp) /\ UNCHANGED gemelo

Spec == Init /\ [][Next]_vars

(* ---------------- the report API on its own: SpecReport --------------- *)

Categorias == {"reports", "csv_files", "log_files", "temp_files"}

\* Counts and sizes passed to add_cleanup; sizes in halves of a megabyte.
Cuentas == {0, 2, 3}

Medidas == {0, 1, 3}

LlamarAddCleanup(item_type, count, size_freed) ==
    /\ run.pc = "report_api"
    /\ Len(run.hist) < MaxLlamadas
    /\ run' = RecordCleanup(run, item_type, count, size_freed)
    /\ UNCHANGED <<gemelo, eventos>>

InitReport ==
    /\ run = [Inicio(FALSE) EXCEPT !.pc = "report_api"]
    /\ gemelo = Inicio(TRUE)
    /\ eventos = 0

NextReport ==
    \E item_type \in Categorias, count \in Cuentas, size_freed \in Medidas :
       LlamarAddCleanup(item_type, count, size_freed)

SpecReport == InitReport /\ [][NextReport]_vars

(* ------- a real run and a dry-run over the same world: SpecGemelos ----- *)

\* main() about to call limpiar_reportes_antiguos.
InicioLimpieza(dry) ==
    Llamar([Inicio(dry) EXCEPT !.pasos = SubSeq(main_steps, 1, 2)], main_steps[3])

InitGemelos ==
    /\ run = InicioLimpieza(FALSE)
    /\ gemelo = InicioLimpieza(TRUE)
    /\ eventos = MaxEventosGemelos

\* Both runs are at the same place and meet the same external answer: each
\* disjunct is a step of the real run together with the dry-run's same step.
\* A failed delete_report ends the real run's loop; the dry-run, which deletes
\* nothing, is still in it and sees the rest of the records on its own.
NextGemelos ==
    \/ \E ret \in RetentionValues, conn \in GmpOutcomes :
          /\ run.pc = gemelo.pc
          /\ IniciarLimpiezaReportes(ret, conn)
          /\ gemelo' = limpiar_reportes_inicio(gemelo, ret, conn)
    \/ \E ts \in Timestamps :
          \E del \in (IF borra(run, ts) THEN DeleteOutcomes ELSE {"ok"}) :
             /\ run.pc = gemelo.pc
             /\ EvaluarReporte(ts, del)
             /\ gemelo' = limpiar_reportes_iter(gemelo, ts, del)
    \/ /\ run.pc = gemelo.pc
       /\ FinReportes
       /\ gemelo' = limpiar_reportes_fin(gemelo)
    \/ \E size \in Tamanos, fallo \in CsvOutcomes :
          /\ run.pc = gemelo.pc
          /\ EliminarCsv(size, fallo)
          /\ gemelo' = eliminar_csv(gemelo, size, fallo)
    \/ \E lr \in RetentionValues :
          /\ run.pc = gemelo.pc
          /\ FinCsv(lr)
          /\ gemelo' = csv_fin(gemelo, lr)
    \/ \E mtime \in Dias, size \in Tamanos, fallo \in LogOutcomes :
          /\ run.pc = gemelo.pc
          /\ EliminarLog(mtime, size, fallo)
          /\ gemelo' = eliminar_log(gemelo, mtime, size, fallo)
    \/ /\ run.pc = gemelo.pc
       /\ FinLogs
       /\ gemelo' = logs_fin(gemelo)
    \/ \E existe \in BOOLEAN :
          \E fallo \in (IF existe THEN TempOutcomes ELSE {"ok"}) :
             /\ run.pc = gemelo.pc
             /\ EliminarTemp(existe, fallo)
             /\ gemelo' = eliminar_temp(gemelo, existe, fallo)
    \/ \E ts \in Timestamps :
          /\ run.pc # gemelo.pc
          /\ gemelo.pc = "reports_loop"
          /\ 1 <= eventos
          /\ gemelo' = limpiar_reportes_iter(gemelo, ts, "ok")
          /\ eventos' = eventos - 1
          /\ UNCHANGED run
    \/ /\ run.pc # gemelo.pc
       /\ gemelo.pc = "reports_loop"
       /\ gemelo' = limpiar_reportes_fin(gemelo)
       /\ UNCHANGED <<run, eventos>>

SpecGemelos == InitGemelos /\ [][NextGemelos]_vars

(* ============================== claims ================================ *)

\* main() has returned or died.
Terminado == run.pc \in {"done", "crashed"}

\* The configuration loaded and main() went on to the steps.
ConfigCargada == Len(run.pasos) >= 1

\* The step at position k of main_steps has returned.
PasoTerminado(k) ==
    \/ Len(run.pasos) > k
    \/ Len(run.pasos) = Len(main_steps) /\ run.pc \in {"guardar", "email", "done"}

NumEntradas(rep) == Len(rep.errors) + Len(rep.warnings)

\* How many calls `op` on `arg` the run issued.
NumCalls(m, op, arg) ==
    Cardinality({k \in 1..Len(m.calls) : m.calls[k][1] = op /\ m.calls[k][2] = arg})

\* C1: when a run in which the configuration loaded ends, its exit code is 1
\* exactly when the errors list is non-empty, and 0 otherwise.
C1_ExitCodeIffErrors ==
    (Terminado /\ ConfigCargada) =>
        /\ run.exit_code \in {0, 1}
        /\ (run.exit_code = 1) <=> (run.report.errors # <<>>)

\* C2: a dry-run issues no mutating external call: no restart, no feed sync,
\* no delete_report, no file removal, no VACUUM / ANALYZE / REINDEX.
C2_DryRunMutatesNothing == run.dry_run => run.calls = <<>>

\* A finished dry-run that met a service down (with the restart policy on)
\* and an export file it would have removed.
C2_Witness ==
    /\ run.dry_run
    /\ run.pc = "done"
    /\ run.restart_failed
    /\ \E s \in DOMAIN run.chk : run.chk[s] = "inactive"
    /\ Has(run.report.cleanup, "csv_files")
    /\ run.report.cleanup["csv_files"].count = 1
    /\ run.report.database = [status |-> "simulated"]

\* C3: once the configuration has loaded no fault escapes a step, the steps
\* run in the order of main_steps, and a run that ends has run all seven.
C3_AllStepsInOrder ==
    ConfigCargada =>
        /\ run.pc # "crashed"
        /\ run.pasos = SubSeq(main_steps, 1, Len(run.pasos))
        /\ Terminado => run.pasos = main_steps

\* The categories for which both the real run and the dry-run recorded a count.
AmbosCuentan == DOMAIN run.report.cleanup \cap DOMAIN gemelo.report.cleanup

\* No mutating call of the real run failed.
SinFallosDeBorrado == \A k \in 1..Len(run.calls) : run.calls[k][3] = "ok"

\* C4 as stated: every cleanup count recorded by the real run is at least the
\* count the dry-run records for the same category over the same world.
C4_RealAtLeastDry ==
    \A cat \in AmbosCuentan :
        run.report.cleanup[cat].count >= gemelo.report.cleanup[cat].count

\* C4 amended: every cleanup count recorded by the real run is at most the
\* dry-run's count for the same category, and the two runs record the same
\* cleanup entries when no deletion fails in the real run.
C4_RealAtMostDry ==
    /\ \A cat \in AmbosCuentan :
          run.report.cleanup[cat].count <= gemelo.report.cleanup[cat].count
    /\ (run.pc = gemelo.pc) =>
          DOMAIN run.report.cleanup \subseteq DOMAIN gemelo.report.cleanup
    /\ (run.pc = gemelo.pc /\ SinFallosDeBorrado) =>
          run.report.cleanup = gemelo.report.cleanup

\* The removal of an export file failed in the real run: it recorded no
\* export file where the dry-run recorded one.
C4_Witness ==
    /\ <<"remove", "csv", "remove">> \in Range(run.calls)
    /\ "csv_files" \in AmbosCuentan
    /\ run.report.cleanup["csv_files"].count = 0
    /\ gemelo.report.cleanup["csv_files"].count = 1

\* C5: evaluating one record in limpiar_reportes_antiguos (its deletion, if
\* any, succeeding): a timestamp with a trailing Z is selected exactly when it
\* is older than the cutoff, a missing or unparsable one is not selected, and
\* the evaluation adds no error and leaves the loop running.
C5_PruningSelection ==
    [][\A ts \in Timestamps :
         (run.pc = "reports_loop" /\ run' = limpiar_reportes_iter(run, ts, "ok")) =>
            /\ (ts.tag = "iso" /\ ts.zona = "Z") =>
                  ((run'.count = run.count + 1) <=> (ts.dia < run.cutoff.t))
            /\ (ts.tag # "iso") => (run'.count = run.count)
            /\ run'.report.errors = run.report.errors
            /\ run'.pc = "reports_loop"]_vars

RECURSIVE Suma(_, _, _)
\* The sum of field k over the add_cleanup calls of hist made for cat.
Suma(hist, cat, k) ==
    IF hist = <<>> THEN 0
    ELSE Suma(Tail(hist), cat, k) + (IF Head(hist)[1] = cat THEN Head(hist)[k] ELSE 0)

C6_Sums ==
    \A cat \in Categorias :
        IF \E k \in 1..Len(run.hist) : run.hist[k][1] = cat
        THEN /\ Has(run.report.cleanup, cat)
             /\ run.report.cleanup[cat].count = Suma(run.hist, cat, 2)
             /\ run.report.cleanup[cat].size_freed_mb = Suma(run.hist, cat, 3)
        ELSE ~Has(run.report.cleanup, cat)

C6_Step ==
    /\ \A cat \in DOMAIN run.report.cleanup :
          /\ Has(run'.report.cleanup, cat)
          /\ run'.report.cleanup[cat].count >= run.report.cleanup[cat].count
          /\ run'.report.cleanup[cat].size_freed_mb >= run.report.cleanup[cat].size_freed_mb
    /\ \A cat \in Categorias :
          (Len(run'.hist) = Len(run.hist) + 1 /\ run'.hist[Len(run'.hist)][1] # cat) =>
             /\ Has(run'.report.cleanup, cat) <=> Has(run.report.cleanup, cat)
             /\ Has(run.report.cleanup, cat) =>
                   run'.report.cleanup[cat] = run.report.cleanup[cat]

\* C6: add_cleanup is additive: each category's count and size_freed_mb are
\* the sums of what was passed for it, no call lowers them, and a call for one
\* category leaves the others as they were.
C6_AddCleanupAdditive == []C6_Sums /\ [][C6_Step]_vars

\* (3, 1.5 MB) then (2, 0.5 MB) for log_files: count 5 and 2.0 MB (4 halves).
C6_Witness ==
    /\ run.hist = <<<<"log_files", 3, 3>>, <<"log_files", 2, 1>>>>
    /\ run.report.cleanup["log_files"] = [count |-> 5, size_freed_mb |-> 4]

\* C7: a service whose status query timed out never has status `failed`,
\* has exactly one warning, and has no entry in errors.
C7_TimeoutIsSoft ==
    \A s \in DOMAIN run.chk :
        run.chk[s] = "TimeoutExpired" =>
            /\ run.report.services[s].status # "failed"
            /\ Cardinality({k \in 1..Len(run.report.warnings) :
                              run.report.warnings[k][2] = s}) = 1
            /\ \A k \in 1..Len(run.report.errors) : run.report.errors[k][2] # s

\* The report category a step writes to.
Categoria(rep, paso) ==
    CASE paso = "verificar_servicios" -> rep.services
      [] paso = "actualizar_feeds" -> rep.feeds
      [] paso = "limpiar_reportes_antiguos" -> rep.cleanup
      [] paso = "limpiar_archivos_temporales" -> rep.cleanup
      [] paso = "verificar_espacio_disco" -> rep.disk_space
      [] paso = "optimizar_base_datos" -> rep.database
      [] paso = "verificar_certificados" -> rep.certificates
      [] OTHER -> EmptyMap

\* C8: a step in which an external call fails appends exactly one entry to
\* errors or warnings and has something written in its own report category.
C8_EveryFailureOneEntry ==
    [][run'.ext.fallo =>
         /\ NumEntradas(run'.report) = NumEntradas(run.report) + 1
         /\ DOMAIN Categoria(run'.report, run'.ext.paso) # {}]_vars

C10_FeedsIndependent ==
    LET syncs == {k \in DOMAIN run.calls : run.calls[k][1] = "feed-sync"}
        n(f)  == Cardinality({k \in syncs : run.calls[k][2] = f})
    IN /\ \A f \in Range(feeds) : n(f) <= 1
       /\ PasoTerminado(2) =>
             /\ DOMAIN run.report.feeds = Range(feeds)
             /\ \A f \in Range(feeds) :
                   IF run.dry_run
                   THEN /\ run.report.feeds[f].status = "simulated"
                        /\ n(f) = 0
                   ELSE n(f) = 1

\* A real run in which the first feed raised, the second timed out and the
\* last two were still synced.
C10_Witness ==
    /\ ~run.dry_run
    /\ PasoTerminado(2)
    /\ <<"feed-sync", "NVT", "Exception">> \in Range(run.calls)
    /\ <<"feed-sync", "GVMD_DATA", "TimeoutExpired">> \in Range(run.calls)
    /\ run.report.feeds["SCAP"].status = "ok"
    /\ run.report.feeds["CERT"].status = "ok"

\* The free-space figure could not be obtained or parsed: the tool raised,
\* printed too few lines or fields, or printed a value that is not a number
\* or whose unit is neither gigabytes nor megabytes.
FiguraFallida(df) ==
    \/ df.kind \in {"Exception", "no_lines", "few_fields"}
    \/ ~df.avail.numero
    \/ df.avail.unidad \notin {"G", "M"}

\* The figure was read and lies below the (numeric) configured minimum.
BajoMinimo(min_cfg, df) ==
    LET min == config_get(min_cfg, DefaultMinDiskSpace)
    IN /\ ~FiguraFallida(df)
       /\ min.tipo = "int"
       /\ available_gb(df.avail).gb < min.v * MBperGB

\* C11: in the disk-space step, free space below the minimum adds exactly one
\* warning and no error, and any failure to obtain or parse the figure adds an
\* error and no low-disk warning.
C11_DiskStep ==
    [][\A min_cfg \in MinDiskValues, df \in DfOutcomes :
          (/\ run.pc = "verificar_espacio_disco"
           /\ run' = verificar_espacio_disco(run, min_cfg, df)) =>
             /\ BajoMinimo(min_cfg, df) =>
                   /\ Len(run'.report.warnings) = Len(run.report.warnings) + 1
                   /\ run'.report.errors = run.report.errors
             /\ FiguraFallida(df) =>
                   /\ Len(run'.report.errors) = Len(run.report.errors) + 1
                   /\ run'.report.warnings = run.report.warnings]_vars

\* The VACUUM / ANALYZE / REINDEX calls the run issued, in order.
LlamadasBD == SelectSeq(run.calls, LAMBDA c : c[1] = "psql")

\* The three are issued in the order of the code, a call is followed by the
\* next one unless it timed out or raised, a dry-run issues none and records
\* `simulated`, and a real run without an error from the step records `ok`.
C12_Order ==
    LET db == LlamadasBD
    IN /\ Len(db) <= 3
       /\ \A k \in 1..Len(db) : db[k][2] = db_statements[k + 1]
       /\ \A k \in 1..(Len(db) - 1) : db[k][3] \in {"ok", "nonzero"}
       /\ run.dry_run => db = <<>>
       /\ PasoTerminado(6) =>
             IF run.dry_run
             THEN /\ Has(run.report.database, "status")
                  /\ run.report.database["status"] = "simulated"
             ELSE /\ \A k \in 1..Len(db) :
                        (db[k][3] \in {"ok", "nonzero"} /\ k < 3) => Len(db) > k
                  /\ (\A e \in Range(run.report.errors) : e[2] # "psql") =>
                        /\ Len(db) = 3
                        /\ Has(run.report.database, "status")
                        /\ run.report.database["status"] = "ok"

\* One statement of a real run: a non-zero completion of one of the three adds
\* one warning and no error and the step goes on; an error is added exactly
\* when the statement times out or raises, and then the step is over.
C12_Step ==
    \A out \in PsqlOutcomes(run.i) :
       (/\ run.pc = "optimizar_base_datos"
        /\ ~run.dry_run
        /\ run' = optimizar_base_datos(run, out)) =>
          /\ (out = "nonzero" /\ run.i \in 2..4) =>
                /\ Len(run'.report.warnings) = Len(run.report.warnings) + 1
                /\ run'.report.errors = run.report.errors
                /\ run'.pc = run.pc
                /\ run'.i = run.i + 1
          /\ (run'.report.errors # run.report.errors)
                <=> (out \in {"TimeoutExpired", "Exception"})
          /\ out \in {"TimeoutExpired", "Exception"} =>
                /\ Len(run'.report.errors) = Len(run.report.errors) + 1
                /\ run'.report.warnings = run.report.warnings
                /\ run'.pc # run.pc

\* C12: a real run issues VACUUM FULL, ANALYZE, REINDEX in that order; a
\* non-zero completion adds one warning, no error, and the later statements
\* still run; an error is added only on a timeout or a raised fault, which
\* skips the rest; a dry-run issues none and records `simulated`.
C12_DatabaseStep == []C12_Order /\ [][C12_Step]_vars

\* A real run whose VACUUM and REINDEX completed non-zero: ANALYZE and REINDEX
\* were still issued, two warnings and no error came from the step, and the
\* database record is `ok`.
C12_Witness ==
    /\ ~run.dry_run
    /\ PasoTerminado(6)
    /\ <<"psql", "VACUUM FULL", "nonzero">> \in Range(run.calls)
    /\ <<"psql", "ANALYZE", "ok">> \in Range(run.calls)
    /\ <<"psql", "REINDEX DATABASE gvmd", "nonzero">> \in Range(run.calls)
    /\ Len(run.report.warnings) = 2
    /\ run.report.errors = <<>>
    /\ run.report.database["status"] = "ok"

\* A send was attempted only with both files written, and they hold the report
\* as it is.
C13_Persisted ==
    run.email # "none" =>
       /\ run.pc = "done"
       /\ run.saved_json = run.report
       /\ run.saved_txt = get_summary_text(run.report)

\* Lines 637-642 for every flag, policy and transport outcome: the send is
\* attempted exactly when --no-email is absent and the policy is
\* unconditional or errors is non-empty; the exit code is the same whatever
\* the transport did, and the report and the two files are left alone.
C13_Step ==
    \A no_email \in BOOLEAN, eoe \in BOOLEAN, smtp \in SmtpOutcomes :
       (run.pc = "email" /\ run' = main_fin(run, no_email, eoe, smtp)) =>
          /\ (run'.email # "none")
                <=> (~no_email /\ (eoe \/ run.report.errors # <<>>))
          /\ \A otro \in SmtpOutcomes :
                main_fin(run, no_email, eoe, otro).exit_code = run'.exit_code
          /\ run'.exit_code = codigo_salida(run.report)
          /\ run'.report = run.report
          /\ run'.saved_json = run.saved_json
          /\ run'.saved_txt = run.saved_txt

\* C13: an email send is attempted only after the structured and the text
\* report have both been written, exactly when email is not suppressed and
\* the policy is unconditional or errors is non-empty, and its outcome changes
\* neither the exit code nor the persisted report.
C13_PublishAfterPersist == []C13_Persisted /\ [][C13_Step]_vars

\* A run without errors under the unconditional policy: the send was
\* attempted and failed, the exit code is 0 and both files are written.
C13_Witness ==
    /\ run.pc = "done"
    /\ run.email = "failed"
    /\ run.report.errors = <<>>
    /\ run.exit_code = 0
    /\ run.saved_json = run.report
    /\ run.saved_txt = get_summary_text(run.report)

IsPrefix(a, b) == Len(a) <= Len(b) /\ SubSeq(b, 1, Len(a)) = a

\* The six structured sections of the report.
Secciones ==
    {"services", "feeds", "cleanup", "disk_space", "database", "certificates"}

\* Every entry the report held when the running step was called is still
\* there with the same value, and the timestamp is the one of construction.
C14_Kept ==
    /\ run.report.timestamp = MaintenanceReport.timestamp
    /\ \A sec \in Secciones :
          \A k \in DOMAIN run.previo[sec] :
             /\ Has(run.report[sec], k)
             /\ run.report[sec][k] = run.previo[sec][k]

\* One step of the program: errors and warnings grow at the end only, the
\* timestamp stays.
C14_Step ==
    /\ IsPrefix(run.report.errors, run'.report.errors)
    /\ IsPrefix(run.report.warnings, run'.report.warnings)
    /\ run'.report.timestamp = run.report.timestamp

\* C14: the report only grows: errors and warnings are append-only, the
\* timestamp never changes, and no step removes or rewrites an entry of a
\* structured section that a different step wrote.
C14_ReportOnlyGrows == []C14_Kept /\ [][C14_Step]_vars

\* A finished run with two errors from two different steps (a service down,
\* a feed that failed) and every later section written after them.
C14_Witness ==
    /\ run.pc = "done"
    /\ Len(run.report.errors) = 2
    /\ run.report.errors[1][2] \in Range(todos_servicios)
    /\ run.report.errors[2][2] \in Range(feeds)
    /\ DOMAIN run.report.services = Range(todos_servicios)
    /\ DOMAIN run.report.feeds = Range(feeds)
    /\ Has(run.report.cleanup, "reports")
    /\ Has(run.report.cleanup, "temp_files")
    /\ Has(run.report.disk_space, "status")
    /\ Has(run.report.database, "status")
    /\ DOMAIN run.report.certificates = Range(cert_paths)

====
